---- MODULE Spec2Model ----
(***************************************************************************)
(* FoodiFind: the Discovery Service (fetchFoodSpots and its process-wide   *)
(* requestCache), the Mock Data Generator (mockSpots) and the App           *)
(* controller (runDiscoveryAgent, handleSearch, handleWeeklyRefresh).       *)
(*                                                                         *)
(* Conventions                                                             *)
(*  - A JavaScript string the code inspects (the query, a location name)   *)
(*    is a sequence of one-character strings; a text the code only copies  *)
(*    is a TLA+ string.                                                    *)
(*  - A coordinate is an integer number of 1e-4 degrees (9.9312 -> 99312). *)
(*  - A value the code copies from the upstream record without defaulting  *)
(*    may be undefined: such a field holds <<v>> or undefined = <<>>.      *)
(*  - One synchronous run of a function reads the clock once.              *)
(***************************************************************************)
EXTENDS Integers, Sequences, FiniteSets

VARIABLES
    now,            \* the wall clock, in milliseconds (Date.now(), new Date())
    apiKey,         \* process.env.API_KEY is set
    requestCache,   \* own properties of the requestCache object: key -> DiscoveryResult
    calls,          \* the fetchFoodSpots invocations made so far, in call order
    events,         \* number of call starts and settlements so far
    mockArgs,       \* arguments of the direct mockSpots invocations
    mockRuns,       \* results of the direct mockSpots invocations, in order
    mapArgs,        \* arguments and upstream response of the direct resumption
    mapOut,         \* what the direct resumption returned: <<>> or <<result>>
    userLocation,   \* App state: the map center
    locationName,   \* App state: the name shown for the center
    spots,          \* App state: the held spot list
    selectedSpot,   \* App state: null or <<spot>>
    searchQuery,    \* App state: the text of the search input
    activeAgent,    \* App state: the stage
    agentLogs,      \* App state: the agent log
    runs,           \* the runDiscoveryAgent invocations, in start order
    refreshes,      \* the handleWeeklyRefresh timers, in click order
    timers          \* number of setTimeout calls so far

mapVars == <<mapArgs, mapOut>>

appVars == <<userLocation, locationName, spots, selectedSpot, searchQuery,
             activeAgent, agentLogs, runs, refreshes, timers>>

vars == <<now, apiKey, requestCache, calls, events, mockArgs, mockRuns, mapVars, appVars>>

-----------------------------------------------------------------------------
(* Bounds *)

MaxWords    == 2    \* words in a generated query string
MaxTicks    == 2    \* clock ticks after StartTime
MaxMockRuns == 2    \* direct mockSpots invocations
MaxCalls    == 3    \* fetchFoodSpots invocations
MaxItems    == 2    \* records in a generated upstream spots array
MaxRuns     == 2    \* runDiscoveryAgent invocations, the one on mount included
MaxRefreshes == 1   \* weekly refreshes
FastLatency == 100  \* milliseconds a quick upstream answer takes
SlowLatency == 3000 \* milliseconds a slow upstream answer takes

StartTime == 999    \* first clock reading: one tick before a seconds boundary

-----------------------------------------------------------------------------
(* JavaScript strings *)

UpperChars == <<"A","B","C","D","E","F","G","H","I","J","K","L","M",
                "N","O","P","Q","R","S","T","U","V","W","X","Y","Z">>
LowerChars == <<"a","b","c","d","e","f","g","h","i","j","k","l","m",
                "n","o","p","q","r","s","t","u","v","w","x","y","z">>

WhiteSpace == {" ", "\t", "\n"}

LowerChar(c) ==
    IF \E i \in DOMAIN UpperChars : UpperChars[i] = c
    THEN LowerChars[CHOOSE i \in DOMAIN UpperChars : UpperChars[i] = c]
    ELSE c

\* String.prototype.toLowerCase
toLowerCase(s) == [i \in DOMAIN s |-> LowerChar(s[i])]

\* String.prototype.trim: drops leading and trailing white space
trim(s) ==
    LET keep == {i \in DOMAIN s : s[i] \notin WhiteSpace}
    IN  IF keep = {} THEN <<>>
        ELSE LET first == CHOOSE i \in keep : \A j \in keep : i <= j
                 last  == CHOOSE i \in keep : \A j \in keep : j <= i
             IN  SubSeq(s, first, last)

\* String.prototype.includes
includes(s, sub) ==
    \E i \in 0 .. (Len(s) - Len(sub)) : SubSeq(s, i + 1, i + Len(sub)) = sub

\* Date.prototype.toISOString, to the parts that vary: <<seconds, milliseconds>>
toISOString(t) == <<t \div 1000, t % 1000>>

\* a value copied without defaulting: present, or undefined
Val(v) == <<v>>
undefined == <<>>

-----------------------------------------------------------------------------
(* Literals of the source *)

sParis       == <<"p","a","r","i","s">>
sNewYork     == <<"n","e","w"," ","y","o","r","k">>
sKochi       == <<"k","o","c","h","i">>
sKochiKerala == <<"K","o","c","h","i",","," ","K","e","r","a","l","a">>
sParisFrance == <<"P","a","r","i","s",","," ","F","r","a","n","c","e">>
sNewYorkUSA  == <<"N","e","w"," ","Y","o","r","k",","," ","U","S","A">>

ParisLat   == 488566
ParisLng   == 23522
NewYorkLat == 407128
NewYorkLng == -740060
KochiLat   == 99312
KochiLng   == 762673

-----------------------------------------------------------------------------
(* Mock Data Generator *)

\* the kochi branch leaves the center at the fallback coordinates
mockLocation_kochiKeepsFallback(query, lat, lng) ==
    LET q == toLowerCase(query)
    IN  IF includes(q, sParis)
        THEN [centerLat |-> ParisLat, centerLng |-> ParisLng, locName |-> sParisFrance]
        ELSE IF includes(q, sNewYork)
        THEN [centerLat |-> NewYorkLat, centerLng |-> NewYorkLng, locName |-> sNewYorkUSA]
        ELSE IF includes(q, sKochi) \/ query = sKochiKerala
        THEN [centerLat |-> lat, centerLng |-> lng, locName |-> sKochiKerala]
        ELSE [centerLat |-> lat, centerLng |-> lng, locName |-> query]

\* the default branch leaves the name at its initial value (line 466)
mockLocation_defaultKeepsName(query, lat, lng) ==
    LET q == toLowerCase(query)
    IN  IF includes(q, sParis)
        THEN [centerLat |-> ParisLat, centerLng |-> ParisLng, locName |-> sParisFrance]
        ELSE IF includes(q, sNewYork)
        THEN [centerLat |-> NewYorkLat, centerLng |-> NewYorkLng, locName |-> sNewYorkUSA]
        ELSE IF includes(q, sKochi) \/ query = sKochiKerala
        THEN [centerLat |-> KochiLat, centerLng |-> KochiLng, locName |-> sKochiKerala]
        ELSE [centerLat |-> lat, centerLng |-> lng, locName |-> sKochiKerala]

\* lines 464-485: the center and the display name chosen for the query
mockLocation(query, lat, lng) ==
    LET q == toLowerCase(query)
    IN  IF includes(q, sParis)
        THEN [centerLat |-> ParisLat, centerLng |-> ParisLng, locName |-> sParisFrance]
        ELSE IF includes(q, sNewYork)
        THEN [centerLat |-> NewYorkLat, centerLng |-> NewYorkLng, locName |-> sNewYorkUSA]
        ELSE IF includes(q, sKochi) \/ query = sKochiKerala
        THEN [centerLat |-> KochiLat, centerLng |-> KochiLng, locName |-> sKochiKerala]
        ELSE [centerLat |-> lat, centerLng |-> lng, locName |-> query]

\* the seed taken from the clock instead of the name
mockSeed_clock(locName) == now % 100

\* line 488
mockSeed(locName) == Len(locName)

\* lines 488-612: the literal list of four spots around the center
mockSpotList(q, centerLat, centerLng, locName) ==
    LET isParis == includes(q, sParis)
        seed == mockSeed(locName)
        stamp == toISOString(now)
        list == <<
          [ id |-> <<"mock", 1, seed>>,
            name |-> Val(IF isParis THEN "Le Bistrot" ELSE "Paragon Restaurant"),
            cuisine |-> Val(IF isParis THEN "French" ELSE "Kerala / Malabar"),
            address |-> Val(IF isParis THEN "Rue de Rivoli" ELSE "Edappally"),
            priceRange |-> Val("Medium"),
            coordinates |-> [lat |-> centerLat + 20, lng |-> centerLng - 30],
            sentimentScore |-> Val(98),
            trendingScore |-> Val(95),
            popularityVelocity |-> Val(12),
            bestDishes |-> Val(IF isParis THEN <<"Escargots", "Steak Frites">>
                               ELSE <<"Fish Mango Curry", "Chicken Biryani", "Elaneer Payasam">>),
            description |-> Val(IF isParis THEN "Classic Parisian dining experience."
                                ELSE "Legendary culinary landmark famous for authentic Malabar biryani."),
            aiConfidence |-> Val(99),
            influencerData |-> [summary |-> "Must-visit for authentic flavors", sourceCount |-> 540,
                                topMentionedBy |-> <<"@eat_local", "@foodie_daily">>],
            viralPosts |-> <<
              [handle |-> "@top_eats", caption |-> "The BEST in town! The biryani is to die for.",
               likes |-> "45.2k", imageUrl |-> "photo-1633945274405-b6c8069047b0", isReel |-> TRUE],
              [handle |-> "@travel_eats_kerala", caption |-> "Crowd is crazy but worth the wait. #paragon",
               likes |-> "8.1k", imageUrl |-> "photo-1589302168068-964664d93dc0", isReel |-> FALSE] >>,
            lastUpdated |-> stamp ],
          [ id |-> <<"mock", 2, seed>>,
            name |-> Val(IF isParis THEN "Cafe de Flore" ELSE "Kashi Art Cafe"),
            cuisine |-> Val("Cafe"),
            address |-> Val(IF isParis THEN "Saint-Germain" ELSE "Fort Kochi"),
            priceRange |-> Val("Medium"),
            coordinates |-> [lat |-> centerLat - 40, lng |-> centerLng - 120],
            sentimentScore |-> Val(94),
            trendingScore |-> Val(88),
            popularityVelocity |-> Val(5),
            bestDishes |-> Val(<<"Chocolate Cake", "Coffee">>),
            description |-> Val("Artsy ambiance perfect for casual meetups."),
            aiConfidence |-> Val(96),
            influencerData |-> [summary |-> "Instagrammable art spots", sourceCount |-> 320,
                                topMentionedBy |-> <<"@travel_diaries">>],
            viralPosts |-> <<
              [handle |-> "@artandfood", caption |-> "Coffee + Art = Perfect Sunday",
               likes |-> "12k", imageUrl |-> "photo-1554118811-1e0d58224f24", isReel |-> FALSE],
              [handle |-> "@cafe_vibes", caption |-> "This chocolate cake is illegal",
               likes |-> "5.4k", imageUrl |-> "photo-1578985545062-69928b1d9587", isReel |-> TRUE] >>,
            lastUpdated |-> stamp ],
          [ id |-> <<"mock", 3, seed>>,
            name |-> Val(IF isParis THEN "L'Ambroisie" ELSE "Grand Pavilion"),
            cuisine |-> Val(IF isParis THEN "Haute Cuisine" ELSE "Seafood"),
            address |-> Val(IF isParis THEN "Place des Vosges" ELSE "MG Road"),
            priceRange |-> Val("High"),
            coordinates |-> [lat |-> centerLat + 50, lng |-> centerLng + 20],
            sentimentScore |-> Val(90),
            trendingScore |-> Val(82),
            popularityVelocity |-> Val(-1),
            bestDishes |-> Val(<<"Seafood Platter", "Signature Curry">>),
            description |-> Val("Classic fine dining spot known for traditional preparation."),
            aiConfidence |-> Val(92),
            influencerData |-> [summary |-> "Consistent quality over decades", sourceCount |-> 150,
                                topMentionedBy |-> <<"@chef_fan">>],
            viralPosts |-> <<
              [handle |-> "@fine_dining", caption |-> "Dinner date perfection.",
               likes |-> "8.5k", imageUrl |-> "photo-1599084993091-1cb5c0721cc6", isReel |-> FALSE] >>,
            lastUpdated |-> stamp ],
          [ id |-> <<"mock", 4, seed>>,
            name |-> Val(IF isParis THEN "Big Mamma" ELSE "District 7 Restro Cafe"),
            cuisine |-> Val("Italian/Fusion"),
            address |-> Val(IF isParis THEN "Oberkampf" ELSE "Vyttila"),
            priceRange |-> Val("Medium"),
            coordinates |-> [lat |-> centerLat - 10, lng |-> centerLng + 80],
            sentimentScore |-> Val(88),
            trendingScore |-> Val(96),
            popularityVelocity |-> Val(25),
            bestDishes |-> Val(<<"Truffle Pasta", "Loaded Burger">>),
            description |-> Val("Trending spot for heavy meals and youth crowd vibes."),
            aiConfidence |-> Val(85),
            influencerData |-> [summary |-> "Viral food challenges", sourceCount |-> 410,
                                topMentionedBy |-> <<"@food_hunter">>],
            viralPosts |-> <<
              [handle |-> "@burger_king_local", caption |-> "Can you finish this?",
               likes |-> "22k", imageUrl |-> "photo-1568901346375-23c9450c58cd", isReel |-> TRUE],
              [handle |-> "@food_challenges", caption |-> "Challenge accepted!",
               likes |-> "15k", imageUrl |-> "photo-1550547660-d9450f859349", isReel |-> TRUE] >>,
            lastUpdated |-> stamp ] >>
    IN  list

mockSpots(query, lat, lng) ==
    LET loc == mockLocation(query, lat, lng)
    IN  [ spots |-> mockSpotList(toLowerCase(query), loc.centerLat, loc.centerLng, loc.locName),
          center |-> [lat |-> loc.centerLat, lng |-> loc.centerLng],
          locationName |-> loc.locName ]

-----------------------------------------------------------------------------
(* Inputs *)

sTokyo       == <<"T","o","k","y","o">>
sTokyoPadded == <<" ","T","O","K","Y","O"," ">>
sConstructor == <<"c","o","n","s","t","r","u","c","t","o","r">>
sProto       == <<"_","_","p","r","o","t","o","_","_">>
sToString    == <<"t","o","S","t","r","i","n","g">>
sTokyoJapan  == <<"T","o","k","y","o",","," ","J","P">>

\* fallback coordinates a caller passes: the default center and another point
Sydney == [lat |-> -338688, lng |-> 1512093]
Kochi  == [lat |-> KochiLat, lng |-> KochiLng]
FallbackCoords == {Kochi, Sydney}

\* the invocations of fetchFoodSpots: two spellings of one cache key, with
\* different fallback coordinates, and a key every plain object inherits
ServiceCalls ==
    { [query |-> sTokyo,       lat |-> Kochi.lat,  lng |-> Kochi.lng],
      [query |-> sTokyoPadded, lat |-> Sydney.lat, lng |-> Sydney.lng],
      [query |-> sConstructor, lat |-> Kochi.lat,  lng |-> Kochi.lng] }

\* Math.random(), in thousandths: the least and the greatest draw
RandomDraws == {0, 999}

-----------------------------------------------------------------------------
(* The upstream response: what `await ai.models.generateContent` yields and *)
(* what JSON.parse makes of its text                                        *)

\* an upstream spot record; every field may be missing
ItemFull ==
    [ isNull |-> FALSE,
      name |-> Val("Sushi Dai"), cuisine |-> Val("Sushi"), address |-> Val("Toyosu"),
      priceRange |-> Val("High"), latitude |-> Val(356655), longitude |-> Val(1397700),
      sentimentScore |-> Val(97), trendingScore |-> Val(99), popularityVelocity |-> Val(8),
      bestDishes |-> Val(<<"Omakase">>), description |-> Val("Queue at dawn."),
      aiConfidence |-> Val(90), influencerSummary |-> Val("Worth the wait"),
      topInfluencers |-> Val(<<"@tokyo_eats">>),
      viralPosts |-> Val(<< [handle |-> "@tokyo_eats", caption |-> "5am queue", likes |-> "3k",
                             imageUrl |-> "img-1", isReel |-> FALSE] >>) ]

\* only the fields the schema requires, and no coordinates
ItemBare ==
    [ isNull |-> FALSE,
      name |-> Val("Ramen Ya"), cuisine |-> Val("Ramen"), address |-> undefined,
      priceRange |-> undefined, latitude |-> Val(0), longitude |-> undefined,
      sentimentScore |-> Val(80), trendingScore |-> Val(101), popularityVelocity |-> undefined,
      bestDishes |-> Val(<<"Shoyu">>), description |-> Val("Counter seats."),
      aiConfidence |-> undefined, influencerSummary |-> Val(""),
      topInfluencers |-> undefined, viralPosts |-> undefined ]

\* the JSON value null in the spots array
ItemNull == [ItemBare EXCEPT !.isNull = TRUE]

\* kind: "reject"      the awaited call throws
\*       "unparseable" result.text is not JSON
\*       "null"        the text is the JSON value null
\*       "object"      the text is a JSON object
\* spotsKind: "undefined", "nonarray" (a truthy value without .map), "array"
NoBody == [regionName |-> undefined, regionLat |-> undefined, regionLng |-> undefined,
           spotsKind |-> "undefined", spots |-> <<>>]

Response(kind, body) ==
    [kind |-> kind, regionName |-> body.regionName, regionLat |-> body.regionLat,
     regionLng |-> body.regionLng, spotsKind |-> body.spotsKind, spots |-> body.spots]

RegionFull  == [regionName |-> Val(sTokyoJapan), regionLat |-> Val(356762), regionLng |-> Val(1396503)]
RegionEmpty == [regionName |-> Val(<<>>), regionLat |-> Val(0), regionLng |-> undefined]

ObjectWith(region, items) ==
    Response("object", [regionName |-> region.regionName, regionLat |-> region.regionLat,
                        regionLng |-> region.regionLng, spotsKind |-> "array", spots |-> items])

\* the upstream outcomes: every way to fail, and a payload that omits the
\* region and, in one record, the optional fields
Responses ==
    { Response(k, NoBody) : k \in {"reject", "unparseable", "null"} }
    \cup { Response("object", [NoBody EXCEPT !.spotsKind = "nonarray"]),
           ObjectWith(RegionFull, <<ItemFull, ItemNull>>),
           ObjectWith(RegionEmpty, <<ItemFull, ItemBare>>) }

-----------------------------------------------------------------------------
(* Discovery Service *)

\* what a plain object inherits from Object.prototype: a property read on
\* requestCache finds these when the object has no own property of that name
ObjectPrototype ==
    [ k \in {sConstructor, sProto, sToString} |->
        IF k = sConstructor THEN [builtin |-> "Object"]
        ELSE IF k = sProto THEN [builtin |-> "Object.prototype"]
        ELSE [builtin |-> "Object.prototype.toString"] ]

\* requestCache[key]: the own property, else the inherited one, else undefined
cacheGet(key) ==
    IF key \in DOMAIN requestCache THEN Val(requestCache[key])
    ELSE IF key \in DOMAIN ObjectPrototype THEN Val(ObjectPrototype[key])
    ELSE undefined

\* requestCache[key] = value. (An assignment to '__proto__' would set the
\* prototype instead; no call gets that far, its lookup being truthy.)
cachePut(key, value) ==
    [k \in DOMAIN requestCache \cup {key} |-> IF k = key THEN value ELSE requestCache[k]]

\* line 365
cacheKeyOf(query) == trim(toLowerCase(query))

\* v.name read on a value fetchFoodSpots returned
Prop(v, name) == IF name \in DOMAIN v THEN Val(v[name]) ELSE undefined

\* a || b, for a number, an inspected string and a copied text
OrNum(a, b) == IF a # undefined /\ a[1] # 0 THEN a[1] ELSE b
OrStr(a, b) == IF a # undefined /\ a[1] # <<>> THEN a[1] ELSE b
OrTxt(a, b) == IF a # undefined /\ a[1] # "" THEN a[1] ELSE b
\* the array is copied and a missing one is left empty
OrArr_noDefault(a, b) == IF a # undefined THEN a[1] ELSE <<>>

OrArr(a, b) == IF a # undefined THEN a[1] ELSE b

\* Math.random() * 0.02 - 0.01, in 1e-4 degrees
jitter(draw) == (draw * 200) \div 1000 - 100
\* Math.floor(Math.random() * 50) + 10
sourceCountOf(draw) == (draw * 50) \div 1000 + 10

\* the id without the positional index
spotId_noIndex(index) == <<"gemini", now, 0>>

\* line 410: `gemini-${Date.now()}-${index}`
spotId(index) == <<"gemini", now, index>>

\* lines 409-440: one upstream record mapped to a FoodSpot; index counts from 0
processedSpot(item, index, regionLat, regionLng, draw) ==
    [ id |-> spotId(index),
      name |-> item.name,
      cuisine |-> item.cuisine,
      address |-> item.address,
      priceRange |-> item.priceRange,
      coordinates |-> [lat |-> OrNum(item.latitude, regionLat + jitter(draw)),
                       lng |-> OrNum(item.longitude, regionLng + jitter(draw))],
      sentimentScore |-> item.sentimentScore,
      trendingScore |-> item.trendingScore,
      popularityVelocity |-> item.popularityVelocity,
      bestDishes |-> item.bestDishes,
      description |-> item.description,
      aiConfidence |-> item.aiConfidence,
      influencerData |-> [summary |-> OrTxt(item.influencerSummary, "Trending on social feeds"),
                          sourceCount |-> sourceCountOf(draw),
                          topMentionedBy |-> OrArr(item.topInfluencers, <<>>)],
      viralPosts |-> OrArr(item.viralPosts,
                           << [handle |-> "@foodie_explorer",
                               caption |-> <<"Checking out ", item.name, "! The vibes are unmatched. #foodie">>,
                               likes |-> "12.5k",
                               imageUrl |-> <<"https://picsum.photos/seed/", index, "/400/400">>,
                               isReel |-> TRUE] >>),
      lastUpdated |-> toISOString(now) ]

\* the spots array is mapped without the `|| []`
upstreamThrows_spotsRequired(resp) ==
    \/ resp.kind \in {"reject", "unparseable", "null"}
    \/ resp.spotsKind \in {"nonarray", "undefined"}
    \/ resp.spotsKind = "array" /\ \E i \in DOMAIN resp.spots : resp.spots[i].isNull

\* lines 393-440: the await, JSON.parse or the mapping throws
upstreamThrows(resp) ==
    \/ resp.kind \in {"reject", "unparseable", "null"}
    \/ resp.spotsKind = "nonarray"
    \/ resp.spotsKind = "array" /\ \E i \in DOMAIN resp.spots : resp.spots[i].isNull

\* lines 403-446
finalResult(query, lat, lng, resp, draw) ==
    LET regionName == OrStr(resp.regionName, query)
        regionLat  == OrNum(resp.regionLat, lat)
        regionLng  == OrNum(resp.regionLng, lng)
        spotsList  == IF resp.spotsKind = "array" THEN resp.spots ELSE <<>>
    IN  [ spots |-> [i \in DOMAIN spotsList |->
                        processedSpot(spotsList[i], i - 1, regionLat, regionLng, draw)],
          center |-> [lat |-> regionLat, lng |-> regionLng],
          locationName |-> regionName ]

\* the catch block hands the cache key, not the query, to mockSpots
resumedResult_keyed(query, lat, lng, resp, draw) ==
    IF upstreamThrows(resp) THEN mockSpots(trim(toLowerCase(query)), lat, lng)
    ELSE finalResult(query, lat, lng, resp, draw)

\* lines 403-457: the result after the await, the catch block included
resumedResult(query, lat, lng, resp, draw) ==
    IF upstreamThrows(resp) THEN mockSpots(query, lat, lng)
    ELSE finalResult(query, lat, lng, resp, draw)

Pending == [builtin |-> "pending promise"]

\* lines 11-12
DEFAULT_CENTER == Kochi
DEFAULT_LOCATION_NAME == sKochiKerala

null == <<>>

\* lines 16-24: the useState initial values
AppConstructed ==
    /\ userLocation = DEFAULT_CENTER
    /\ locationName = DEFAULT_LOCATION_NAME
    /\ spots = <<>>
    /\ selectedSpot = null
    /\ searchQuery = <<>>
    /\ activeAgent = "IDLE"
    /\ agentLogs = <<>>
    /\ runs = <<>>
    /\ refreshes = <<>>
    /\ timers = 0

\* lines 360-378 and 393: fetchFoodSpots up to its return or its await
FetchStart(query, lat, lng) ==
    /\ Len(calls) < MaxCalls
    /\ LET cacheKey == cacheKeyOf(query)
           cached == cacheGet(cacheKey)
       IN  IF cached # undefined
           THEN /\ calls' = Append(calls, [query |-> query, lat |-> lat, lng |-> lng,
                                           startEv |-> events + 1, endEv |-> events + 2,
                                           status |-> "resolved", value |-> cached[1],
                                           path |-> "hit", upstream |-> FALSE])
                /\ events' = events + 2
                /\ UNCHANGED requestCache
           ELSE IF ~apiKey
           THEN LET mockResult == mockSpots(query, lat, lng)
                IN  /\ requestCache' = cachePut(cacheKey, mockResult)
                    /\ calls' = Append(calls, [query |-> query, lat |-> lat, lng |-> lng,
                                               startEv |-> events + 1, endEv |-> events + 2,
                                               status |-> "resolved", value |-> mockResult,
                                               path |-> "nokey", upstream |-> FALSE])
                    /\ events' = events + 2
           ELSE /\ calls' = Append(calls, [query |-> query, lat |-> lat, lng |-> lng,
                                           startEv |-> events + 1, endEv |-> 0,
                                           status |-> "pending", value |-> Pending,
                                           path |-> "await", upstream |-> TRUE])
                /\ events' = events + 1
                /\ UNCHANGED requestCache

\* a call made on the service directly
FetchCall(query, lat, lng) ==
    /\ FetchStart(query, lat, lng)
    /\ UNCHANGED <<now, apiKey, mockArgs, mockRuns, mapVars, appVars>>

\* lines 393-457: fetchFoodSpots from the settled await to its return
FetchSettle(i, resp, draw) ==
    /\ i \in DOMAIN calls
    /\ calls[i].status = "pending"
    /\ LET c == calls[i]
           result == resumedResult(c.query, c.lat, c.lng, resp, draw)
       IN  /\ requestCache' = cachePut(cacheKeyOf(c.query), result)
           /\ calls' = [calls EXCEPT ![i].status = "resolved",
                                     ![i].value = result,
                                     ![i].endEv = events + 1,
                                     ![i].path = IF upstreamThrows(resp) THEN "fallback" ELSE "upstream"]
           /\ events' = events + 1

\* the upstream call of a direct call settles
FetchResume(i, resp, draw) ==
    /\ FetchSettle(i, resp, draw)
    /\ UNCHANGED <<now, apiKey, mockArgs, mockRuns, mapVars, appVars>>

\* the clock advances
Tick ==
    /\ now < StartTime + MaxTicks
    /\ now' = now + 1
    /\ UNCHANGED <<apiKey, requestCache, calls, events, mockArgs, mockRuns, mapVars, appVars>>

Init ==
    /\ now = StartTime
    /\ apiKey \in BOOLEAN
    /\ requestCache = [k \in {} |-> Pending]
    /\ calls = <<>>
    /\ events = 0
    /\ mockArgs = <<>>
    /\ mockRuns = <<>>
    /\ mapArgs = <<>>
    /\ mapOut = <<>>
    /\ AppConstructed

Next ==
    \/ \E c \in ServiceCalls : FetchCall(c.query, c.lat, c.lng)
    \/ \E i \in 1 .. MaxCalls, resp \in Responses, draw \in RandomDraws : FetchResume(i, resp, draw)

\* The service runs read the clock and do not advance it: the time enters
\* only the ids and the lastUpdated stamps.
Spec == Init /\ [][Next]_vars

-----------------------------------------------------------------------------
(* mockSpots on its own: one argument triple, invoked at several times *)

sNewYorkCap == <<"N","e","w"," ","Y","o","r","k">>

\* the words a query is made of: the recognized names in lower and mixed case,
\* an unrecognized name and a blank
Words == { sParis, sNewYorkCap, sKochi, sKochiKerala, sTokyo, <<" ">> }

RECURSIVE Phrases(_)
\* the concatenations of at most n words
Phrases(n) ==
    IF n = 0 THEN {<<>>}
    ELSE LET shorter == Phrases(n - 1)
         IN  shorter \cup {p \o w : p \in shorter, w \in Words}

MockQueries == Phrases(MaxWords)

MockCoords == FallbackCoords

MockInvoke ==
    /\ Len(mockRuns) < MaxMockRuns
    /\ mockRuns' = Append(mockRuns,
                          [at |-> now, result |-> mockSpots(mockArgs.query, mockArgs.lat, mockArgs.lng)])
    /\ UNCHANGED <<now, apiKey, requestCache, calls, events, mockArgs, mapVars, appVars>>

InitMock ==
    /\ now = StartTime
    /\ apiKey = FALSE
    /\ requestCache = [k \in {} |-> Pending]
    /\ calls = <<>>
    /\ events = 0
    /\ mockArgs \in {[query |-> q, lat |-> c.lat, lng |-> c.lng] : q \in MockQueries, c \in MockCoords}
    /\ mockRuns = <<>>
    /\ mapArgs = <<>>
    /\ mapOut = <<>>
    /\ AppConstructed

NextMock ==
    \/ MockInvoke
    \/ Tick

SpecMock == InitMock /\ [][NextMock]_vars

-----------------------------------------------------------------------------
(* The resumption of fetchFoodSpots on its own: one call, one upstream      *)
(* response, every shape of payload                                         *)

\* a full record without viralPosts, and one whose viralPosts is []
ItemNoPosts    == [ItemFull EXCEPT !.viralPosts = undefined]
ItemEmptyPosts == [ItemFull EXCEPT !.viralPosts = Val(<<>>)]

MapItems == {ItemFull, ItemBare, ItemNoPosts, ItemEmptyPosts, ItemNull}

RECURSIVE ItemLists(_)
\* the spots arrays of at most n records
ItemLists(n) ==
    IF n = 0 THEN {<<>>}
    ELSE LET shorter == ItemLists(n - 1)
         IN  shorter \cup {Append(l, it) : l \in shorter, it \in MapItems}

\* the payload names no region, or a region without its center
RegionAbsent   == [regionName |-> undefined, regionLat |-> undefined, regionLng |-> undefined]
RegionNoCenter == [RegionAbsent EXCEPT !.regionName = Val(sTokyoJapan)]

MapRegions == {RegionFull, RegionEmpty, RegionAbsent, RegionNoCenter}

\* every failure, and every object: with and without the region parts, with
\* the spots array omitted, not an array, or an array of records
MapResponses ==
    { Response(k, NoBody) : k \in {"reject", "unparseable", "null"} }
    \cup { Response("object", [regionName |-> r.regionName, regionLat |-> r.regionLat,
                               regionLng |-> r.regionLng, spotsKind |-> k, spots |-> <<>>]) :
              r \in MapRegions, k \in {"undefined", "nonarray"} }
    \cup { ObjectWith(r, l) : r \in MapRegions, l \in ItemLists(MaxItems) }

MapApply ==
    /\ mapOut = <<>>
    /\ mapOut' = <<resumedResult(mapArgs.query, mapArgs.lat, mapArgs.lng, mapArgs.resp, mapArgs.draw)>>
    /\ UNCHANGED <<now, apiKey, requestCache, calls, events, mockArgs, mockRuns, mapArgs, appVars>>

InitMap ==
    /\ now = StartTime
    /\ apiKey = TRUE
    /\ requestCache = [k \in {} |-> Pending]
    /\ calls = <<>>
    /\ events = 0
    /\ mockArgs = <<>>
    /\ mockRuns = <<>>
    /\ mapArgs \in {[query |-> sTokyoPadded, lat |-> c.lat, lng |-> c.lng, resp |-> r, draw |-> d] :
                       c \in FallbackCoords, r \in MapResponses, d \in RandomDraws}
    /\ mapOut = <<>>
    /\ AppConstructed

NextMap == MapApply

SpecMap == InitMap /\ [][NextMap]_vars

-----------------------------------------------------------------------------
(* The App controller: runDiscoveryAgent, handleSearch, handleWeeklyRefresh *)
(* and the timers they set. A handler, or the part of an async function     *)
(* between two awaits, runs to completion; its state updates are applied    *)
(* together. Time passes only between such steps, and only up to the next   *)
(* timer.                                                                   *)

ScanDelay     == 800     \* line 67
RankDelay     == 600     \* line 77
ValidateDelay == 400     \* line 81
RefreshDelay  == 2500    \* line 120

\* what the user types into the search input
AppQueries == {sParis, sConstructor}

\* how long the upstream takes to answer a call
Latencies == {FastLatency, SlowLatency}

\* what the upstream answers to a run: a payload of two records, or an
\* empty object
AppResponses ==
    { ObjectWith(RegionFull, <<ItemFull, ItemBare>>),
      Response("object", NoBody) }

\* a number that is not a number
NaN == <<"not", "a number">>

\* the log is written with the new entry in front
addLog_prepend(log, message, about, count, agent) ==
    <<[timestamp |-> now, message |-> message, about |-> about, count |-> count, agent |-> agent]>>
    \o log

\* lines 27-34: the entry appended to the log (its id, a random string, is
\* left out); about and count are the values the message interpolates
addLog(log, message, about, count, agent) ==
    Append(log, [timestamp |-> now, message |-> message, about |-> about,
                 count |-> count, agent |-> agent])

Mounted == agentLogs # <<>>

RunWaits == {"wait800", "awaitFetch", "wait600", "wait400"}

\* the timers set and not yet run, and the upstream answers under way
PendingTimers ==
    { [due |-> runs[r].due, seq |-> runs[r].seq] :
        r \in {x \in DOMAIN runs : runs[x].pc \in RunWaits} }
    \cup { [due |-> refreshes[f].due, seq |-> refreshes[f].seq] :
             f \in {x \in DOMAIN refreshes : refreshes[x].pc = "wait"} }

\* the event loop runs a due timer, the earliest due first and of two due
\* together the one set first
Fires(t) ==
    /\ t.due <= now
    /\ \A o \in PendingTimers : t.due < o.due \/ (t.due = o.due /\ t.seq <= o.seq)

\* A timer that is due runs before anything else: what the user or the
\* browser does between two timers is handled before time passes on
NoTimerDue == \A t \in PendingTimers : t.due > now

\* lines 59-67: runDiscoveryAgent up to its first await; log is the log
\* after what the caller has appended
runDiscoveryAgent(center, query, log) ==
    /\ Len(runs) < MaxRuns
    /\ selectedSpot' = null
    /\ activeAgent' = "DISCOVERY"
    /\ agentLogs' = addLog(log, "Scanning social signals", query, 0, "DISCOVERY")
    /\ runs' = Append(runs, [query |-> query, center |-> center, pc |-> "wait800",
                             due |-> now + ScanDelay, seq |-> timers + 1, call |-> 0,
                             began |-> Len(log) + 1, ended |-> 0,
                             trace |-> <<"set DISCOVERY", "log DISCOVERY">>])
    /\ timers' = timers + 1

\* lines 37-42: the mount effect
Mount ==
    /\ ~Mounted
    /\ runDiscoveryAgent(DEFAULT_CENTER, DEFAULT_LOCATION_NAME,
                         addLog(agentLogs, "Initializing FoodiFind System...", <<>>, 0, "IDLE"))
    /\ UNCHANGED <<now, apiKey, requestCache, calls, events, mockArgs, mockRuns, mapVars,
                   userLocation, locationName, spots, searchQuery, refreshes>>

\* lines 44-53: the geolocation callback; the browser, when it reports a
\* position at all, is taken to report it before the first timer has run
GeoPosition ==
    /\ Mounted
    /\ timers = 1 /\ NoTimerDue
    /\ \A k \in DOMAIN agentLogs : agentLogs[k].message # "User position detected"
    /\ agentLogs' = addLog(agentLogs, "User position detected", <<>>, 0, "IDLE")
    /\ UNCHANGED <<now, apiKey, requestCache, calls, events, mockArgs, mockRuns, mapVars,
                   userLocation, locationName, spots, selectedSpot, searchQuery, activeAgent,
                   runs, refreshes, timers>>

\* lines 168 and 97-104: the user enters a text in the search input and
\* submits the form, which is never disabled; a blank text starts no run
handleSearch(text) ==
    /\ Mounted
    /\ NoTimerDue
    /\ searchQuery' = text
    /\ trim(text) # <<>>
    /\ runDiscoveryAgent(userLocation, text,
                         addLog(agentLogs, "New search initiated", text, 0, "SEARCH"))
    /\ UNCHANGED <<now, apiKey, requestCache, calls, events, mockArgs, mockRuns, mapVars,
                   userLocation, locationName, spots, refreshes>>

\* lines 75-77: the run goes on with the value fetchFoodSpots resolved to;
\* result.spots.length throws on a value without spots, and the run ends
Ranking(r, run, result, log) ==
    /\ activeAgent' = "RANKING"
    /\ IF Prop(result, "spots") = undefined
       THEN /\ runs' = [runs EXCEPT ![r] = [run EXCEPT !.pc = "thrown",
                                                       !.trace = Append(@, "set RANKING")]]
            /\ agentLogs' = log
            /\ UNCHANGED timers
       ELSE /\ runs' = [runs EXCEPT ![r] = [run EXCEPT !.pc = "wait600",
                                                       !.due = now + RankDelay,
                                                       !.seq = timers + 1,
                                                       !.trace = @ \o <<"set RANKING", "log RANKING">>]]
            /\ agentLogs' = addLog(log, "Ranking candidates by sentiment velocity", <<>>,
                                   Len(result.spots), "RANKING")
            /\ timers' = timers + 1

\* lines 69-77: the 800 ms timer runs; a call that resolves without
\* awaiting the upstream lets the run go on before any other task, and an
\* upstream call is answered after the latency
RunSearch(r, latency) ==
    /\ r \in DOMAIN runs
    /\ runs[r].pc = "wait800"
    /\ Fires(runs[r])
    /\ FetchStart(runs[r].query, runs[r].center.lat, runs[r].center.lng)
    /\ LET ix  == Len(calls) + 1
           log == addLog(agentLogs, "Extracting entities & geolocation data...", <<>>, 0, "SEARCH")
           run == [runs[r] EXCEPT !.call = ix,
                                  !.trace = @ \o <<"set SEARCH", "log SEARCH", "fetch">>]
       IN  IF calls'[ix].status = "resolved"
           THEN Ranking(r, run, calls'[ix].value, log)
           ELSE /\ activeAgent' = "SEARCH"
                /\ runs' = [runs EXCEPT ![r] = [run EXCEPT !.pc = "awaitFetch",
                                                           !.due = now + latency,
                                                           !.seq = timers + 1]]
                /\ agentLogs' = log
                /\ timers' = timers + 1
    /\ UNCHANGED <<now, apiKey, mockArgs, mockRuns, mapVars,
                   userLocation, locationName, spots, selectedSpot, searchQuery, refreshes>>

\* lines 73-77: the upstream answers and the run goes on
RunArrive(r, resp, draw) ==
    /\ r \in DOMAIN runs
    /\ runs[r].pc = "awaitFetch"
    /\ Fires(runs[r])
    /\ FetchSettle(runs[r].call, resp, draw)
    /\ Ranking(r, runs[r], calls'[runs[r].call].value, agentLogs)
    /\ UNCHANGED <<now, apiKey, mockArgs, mockRuns, mapVars,
                   userLocation, locationName, spots, selectedSpot, searchQuery, refreshes>>

\* lines 79-81: the 600 ms timer runs
RunValidation(r) ==
    /\ r \in DOMAIN runs
    /\ runs[r].pc = "wait600"
    /\ Fires(runs[r])
    /\ activeAgent' = "VALIDATION"
    /\ agentLogs' = addLog(agentLogs, "Cross-referencing with public review databases...",
                           <<>>, 0, "VALIDATION")
    /\ runs' = [runs EXCEPT ![r].pc = "wait400", ![r].due = now + ValidateDelay,
                            ![r].seq = timers + 1,
                            ![r].trace = @ \o <<"set VALIDATION", "log VALIDATION">>]
    /\ timers' = timers + 1
    /\ UNCHANGED <<now, apiKey, requestCache, calls, events, mockArgs, mockRuns, mapVars,
                   userLocation, locationName, spots, selectedSpot, searchQuery, refreshes>>

\* lines 83-94: the 400 ms timer runs and the result is committed; a center
\* object is truthy, a location name is unless it is empty
RunCommit(r) ==
    /\ r \in DOMAIN runs
    /\ runs[r].pc = "wait400"
    /\ Fires(runs[r])
    /\ LET result == calls[runs[r].call].value
       IN  /\ spots' = result.spots
           /\ userLocation' = result.center
           /\ locationName' = OrStr(Val(result.locationName), locationName)
           /\ agentLogs' = addLog(agentLogs, "Discovery complete", result.locationName,
                                  Len(result.spots), "IDLE")
    /\ activeAgent' = "IDLE"
    /\ runs' = [runs EXCEPT ![r].pc = "done", ![r].ended = Len(agentLogs) + 1,
                            ![r].trace = @ \o <<"commit", "log IDLE", "set IDLE">>]
    /\ UNCHANGED <<now, apiKey, requestCache, calls, events, mockArgs, mockRuns, mapVars,
                   selectedSpot, searchQuery, refreshes, timers>>

\* the drift drawn from twice the range
scoreDrift_wide(draw) == (draw * 20 - 3000) \div 1000

\* Math.floor(Math.random() * 10 - 3), the draw in thousandths
scoreDrift(draw) == (draw * 10 - 3000) \div 1000

\* Math.min(100, score + drift); a missing score adds up to NaN
driftedScore(score, draw) ==
    IF score = undefined \/ score = NaN THEN NaN
    ELSE IF score[1] + scoreDrift(draw) > 100 THEN Val(100)
    ELSE Val(score[1] + scoreDrift(draw))

\* the copy keeps the old stamp
refreshedSpot_keepsStamp(s, draw) ==
    [s EXCEPT !.trendingScore = driftedScore(s.trendingScore, draw)]

\* the copy drifts the velocity as well
refreshedSpot_driftsVelocity(s, draw) ==
    [s EXCEPT !.trendingScore = driftedScore(s.trendingScore, draw),
              !.popularityVelocity = driftedScore(s.popularityVelocity, draw),
              !.lastUpdated = toISOString(now)]

\* lines 112-116: the copy of a spot with a new score and stamp
refreshedSpot(s, draw) ==
    [s EXCEPT !.trendingScore = driftedScore(s.trendingScore, draw),
              !.lastUpdated = toISOString(now)]

\* the click leaves the stage as it is
handleWeeklyRefresh_keepsStage ==
    /\ Mounted
    /\ NoTimerDue
    /\ activeAgent = "IDLE"
    /\ spots # <<>>
    /\ Len(refreshes) < MaxRefreshes
    /\ agentLogs' = addLog(agentLogs, "Executing Weekly Analytics Refresh...", <<>>, 0, "REFRESH")
    /\ refreshes' = Append(refreshes, [held |-> spots, pc |-> "wait", due |-> now + RefreshDelay,
                                       seq |-> timers + 1,
                                       began |-> Len(agentLogs) + 1, ended |-> 0])
    /\ timers' = timers + 1
    /\ UNCHANGED <<now, apiKey, requestCache, calls, events, mockArgs, mockRuns, mapVars,
                   userLocation, locationName, spots, selectedSpot, searchQuery, runs,
                   activeAgent>>

\* lines 106-110 and 120; the button is disabled unless the stage is IDLE
\* (lines 243-250)
handleWeeklyRefresh ==
    /\ Mounted
    /\ NoTimerDue
    /\ activeAgent = "IDLE"
    /\ spots # <<>>
    /\ Len(refreshes) < MaxRefreshes
    /\ activeAgent' = "REFRESH"
    /\ agentLogs' = addLog(agentLogs, "Executing Weekly Analytics Refresh...", <<>>, 0, "REFRESH")
    /\ refreshes' = Append(refreshes, [held |-> spots, pc |-> "wait", due |-> now + RefreshDelay,
                                       seq |-> timers + 1,
                                       began |-> Len(agentLogs) + 1, ended |-> 0])
    /\ timers' = timers + 1
    /\ UNCHANGED <<now, apiKey, requestCache, calls, events, mockArgs, mockRuns, mapVars,
                   userLocation, locationName, spots, selectedSpot, searchQuery, runs>>

\* lines 111-120: the refresh timer runs, on the list held at the click;
\* the spots at odd places draw d, those at even places the opposite draw
RefreshFire(f, d) ==
    /\ f \in DOMAIN refreshes
    /\ refreshes[f].pc = "wait"
    /\ Fires(refreshes[f])
    /\ spots' = [k \in DOMAIN refreshes[f].held |->
                    refreshedSpot(refreshes[f].held[k], IF k % 2 = 1 THEN d ELSE 999 - d)]
    /\ agentLogs' = addLog(agentLogs, "Refresh complete. Trends updated.", <<>>, 0, "IDLE")
    /\ activeAgent' = "IDLE"
    /\ refreshes' = [refreshes EXCEPT ![f].pc = "done", ![f].ended = Len(agentLogs) + 1]
    /\ UNCHANGED <<now, apiKey, requestCache, calls, events, mockArgs, mockRuns, mapVars,
                   userLocation, locationName, selectedSpot, searchQuery, runs, timers>>

\* MapVisualization line 100 (App line 218): the marker of the k-th held spot is
\* clicked and the spot becomes the selected one; while the stage is not IDLE
\* the loading overlay (App lines 123, 184) lies over the map
onSelectSpot(k) ==
    /\ Mounted
    /\ NoTimerDue
    /\ activeAgent = "IDLE"
    /\ k \in DOMAIN spots
    /\ selectedSpot' = Val(spots[k])
    /\ UNCHANGED <<now, apiKey, requestCache, calls, events, mockArgs, mockRuns, mapVars,
                   userLocation, locationName, spots, searchQuery, activeAgent, agentLogs,
                   runs, refreshes, timers>>

\* line 284: the detail panel, shown while a spot is selected, is closed
onClose ==
    /\ NoTimerDue
    /\ selectedSpot # null
    /\ selectedSpot' = null
    /\ UNCHANGED <<now, apiKey, requestCache, calls, events, mockArgs, mockRuns, mapVars,
                   userLocation, locationName, spots, searchQuery, activeAgent, agentLogs,
                   runs, refreshes, timers>>

\* nothing happens until the next timer is due
AdvanceToDue ==
    /\ PendingTimers # {}
    /\ \A t \in PendingTimers : t.due > now
    /\ \E t \in PendingTimers :
          /\ \A o \in PendingTimers : t.due <= o.due
          /\ now' = t.due
    /\ UNCHANGED <<apiKey, requestCache, calls, events, mockArgs, mockRuns, mapVars, appVars>>

InitApp ==
    /\ now = StartTime
    /\ apiKey \in BOOLEAN
    /\ requestCache = [k \in {} |-> Pending]
    /\ calls = <<>>
    /\ events = 0
    /\ mockArgs = <<>>
    /\ mockRuns = <<>>
    /\ mapArgs = <<>>
    /\ mapOut = <<>>
    /\ AppConstructed

NextApp ==
    \/ Mount
    \/ GeoPosition
    \/ \E text \in AppQueries : handleSearch(text)
    \/ \E r \in 1 .. MaxRuns, latency \in Latencies : RunSearch(r, latency)
    \/ \E r \in 1 .. MaxRuns, resp \in AppResponses : RunArrive(r, resp, 0)
    \/ \E r \in 1 .. MaxRuns : RunValidation(r)
    \/ \E r \in 1 .. MaxRuns : RunCommit(r)
    \/ handleWeeklyRefresh
    \/ \E f \in 1 .. MaxRefreshes, d \in RandomDraws : RefreshFire(f, d)
    \/ AdvanceToDue

SpecApp == InitApp /\ [][NextApp]_vars

\* a timer that is due runs its callback, an awaited answer arrives, and the
\* clock reaches the next due time
TimersFire ==
    \/ \E r \in 1 .. MaxRuns, latency \in Latencies : RunSearch(r, latency)
    \/ \E r \in 1 .. MaxRuns, resp \in AppResponses : RunArrive(r, resp, 0)
    \/ \E r \in 1 .. MaxRuns : RunValidation(r)
    \/ \E r \in 1 .. MaxRuns : RunCommit(r)
    \/ \E f \in 1 .. MaxRefreshes, d \in RandomDraws : RefreshFire(f, d)
    \/ AdvanceToDue

\* the controller under an event loop that keeps running: the timers fire and
\* the upstream answers; the user's inputs stay optional
SpecAppFair == InitApp /\ [][NextApp]_vars /\ WF_vars(TimersFire)

\* the controller together with the selection of a spot; the selection is
\* read by no handler, so it is left out of NextApp, whose properties do not
\* mention it
NextSelect ==
    \/ NextApp
    \/ \E k \in DOMAIN spots : onSelectSpot(k)
    \/ onClose

SpecSelect == InitApp /\ [][NextSelect]_vars

-----------------------------------------------------------------------------
(* Properties of the Discovery Service, checked under Spec *)

SameKey(i, j) == cacheKeyOf(calls[i].query) = cacheKeyOf(calls[j].query)

\* the three parts of a DiscoveryResult, read as properties of a returned value
Content(v) == <<Prop(v, "spots"), Prop(v, "center"), Prop(v, "locationName")>>

\* C1: every fetchFoodSpots call resolves, never rejects, and the value it
\* resolves to has a spots list (stated as the claim states it)
C1_ResolvesWithSpotList ==
    \A i \in DOMAIN calls :
        /\ calls[i].status # "rejected"
        /\ calls[i].status = "resolved" => Prop(calls[i].value, "spots") # undefined

\* C2: a call made after a call with the same normalized key has completed
\* returns that call's spots, center and locationName and makes no upstream
\* call (stated as the claim states it)
C2_CacheIdempotence ==
    \A i, j \in DOMAIN calls :
        ( /\ calls[i].status = "resolved"
          /\ calls[i].endEv < calls[j].startEv
          /\ SameKey(i, j)
          /\ calls[j].status = "resolved" )
        => /\ Content(calls[j].value) = Content(calls[i].value)
           /\ ~calls[j].upstream

\* C3: a cache entry, once present, is never removed or replaced by another
\* result, and all resolved calls with one normalized key return identical
\* spots (stated as the claim states it)
C3_EntrySticky ==
    [][ /\ \A k \in DOMAIN requestCache :
              k \in DOMAIN requestCache' /\ requestCache'[k] = requestCache[k]
        /\ \A i, j \in DOMAIN calls' :
              ( /\ calls'[i].status = "resolved" /\ calls'[j].status = "resolved"
                /\ cacheKeyOf(calls'[i].query) = cacheKeyOf(calls'[j].query) )
              => Prop(calls'[i].value, "spots") = Prop(calls'[j].value, "spots") ]_vars

\* C4: when the awaited upstream call, the parsing or the mapping fails, the
\* call resolves to mockSpots(query, lat, lng) for its own arguments and that
\* value is stored under the normalized key
C4_FailureFallsBack ==
    [][ \A i \in DOMAIN calls :
          (calls[i].status = "pending" /\ calls'[i].path = "fallback")
          => /\ calls[i].upstream
             /\ calls'[i].status = "resolved"
             /\ calls'[i].value = mockSpots(calls[i].query, calls[i].lat, calls[i].lng)
             /\ cacheKeyOf(calls[i].query) \in DOMAIN requestCache'
             /\ requestCache'[cacheKeyOf(calls[i].query)] = calls'[i].value ]_vars

\* a call with a padded upper-case query fell back
C4_Witness ==
    \E i \in DOMAIN calls :
        /\ calls[i].path = "fallback"
        /\ calls[i].query = sTokyoPadded
        /\ apiKey

\* the key of call i was stored by no earlier call
FirstOfKey(i) == \A j \in 1 .. (i - 1) : ~SameKey(i, j)

\* C5: without a credential, a call whose key no call has stored makes no
\* upstream call, returns mockSpots(query, lat, lng) and stores it under the
\* key (stated as the claim states it)
C5_NoCredentialMock ==
    ~apiKey =>
        \A i \in DOMAIN calls :
            FirstOfKey(i) =>
                /\ ~calls[i].upstream
                /\ calls[i].value = mockSpots(calls[i].query, calls[i].lat, calls[i].lng)
                /\ cacheKeyOf(calls[i].query) \in DOMAIN requestCache
                /\ requestCache[cacheKeyOf(calls[i].query)] = calls[i].value

\* the query contains none of the substrings the mock matcher recognizes
Unrecognized(query) ==
    LET q == toLowerCase(query)
    IN  ~includes(q, sParis) /\ ~includes(q, sNewYork) /\ ~includes(q, sKochi)

\* C9: without a credential, a call with an unrecognized query q resolves to
\* a result named q with exactly four spots (stated as the claim states it)
C9_NoCredentialEndToEnd ==
    ~apiKey =>
        \A i \in DOMAIN calls :
            Unrecognized(calls[i].query) =>
                /\ calls[i].status = "resolved"
                /\ Prop(calls[i].value, "locationName") = Val(calls[i].query)
                /\ Prop(calls[i].value, "spots") # undefined
                /\ Len(Prop(calls[i].value, "spots")[1]) = 4

\* C10: in every DiscoveryResult a call returned, the ids of the spots are
\* pairwise different
C10_UniqueIds ==
    \A i \in DOMAIN calls :
        (calls[i].status = "resolved" /\ "spots" \in DOMAIN calls[i].value)
        => LET list == calls[i].value.spots
           IN  \A a, b \in DOMAIN list : list[a].id = list[b].id => a = b

\* an upstream result of two spots and a mock result have both been returned
C10_Witness ==
    /\ \E i \in DOMAIN calls : calls[i].path = "upstream" /\ Len(calls[i].value.spots) = 2
    /\ \E i \in DOMAIN calls : calls[i].path = "fallback" /\ Len(calls[i].value.spots) = 4

\* call j stored its result under the key of call i before call i began
StoredBefore(j, i) ==
    /\ SameKey(i, j)
    /\ calls[j].path \in {"nokey", "fallback", "upstream"}
    /\ calls[j].status = "resolved"
    /\ calls[j].endEv < calls[i].startEv

\* C21: a cache hit returns a DiscoveryResult that an earlier call stored
\* under the same normalized key; a call whose key no call has stored, the
\* names every plain object inherits included, takes the miss path (stated as
\* the claim states it)
C21_HitsReturnStoredResults ==
    \A i \in DOMAIN calls :
        calls[i].path = "hit" =>
            /\ Prop(calls[i].value, "spots") # undefined
            /\ \E j \in DOMAIN calls :
                  StoredBefore(j, i) /\ calls[j].value = calls[i].value

-----------------------------------------------------------------------------
(* Properties of the Mock Data Generator, checked under SpecMock *)

\* a result without the lastUpdated stamps of its spots
StripStamps(result) ==
    [result EXCEPT !.spots =
        [k \in DOMAIN result.spots |->
            [f \in (DOMAIN result.spots[k]) \ {"lastUpdated"} |-> result.spots[k][f]]]]

Recognized ==
    << [sub |-> sParis,   lat |-> ParisLat,   lng |-> ParisLng,   name |-> sParisFrance],
       [sub |-> sNewYork, lat |-> NewYorkLat, lng |-> NewYorkLng, name |-> sNewYorkUSA],
       [sub |-> sKochi,   lat |-> KochiLat,   lng |-> KochiLng,   name |-> sKochiKerala] >>

\* the indices of the recognized substrings the query contains, ignoring case
Hits(query) == {k \in DOMAIN Recognized : includes(toLowerCase(query), Recognized[k].sub)}

\* the offsets of the four spots from the center, in 1e-4 degrees
Deltas == << [lat |-> 20, lng |-> -30], [lat |-> -40, lng |-> -120],
             [lat |-> 50, lng |-> 20],  [lat |-> -10, lng |-> 80] >>

AtOffsets(result) ==
    /\ Len(result.spots) = 4
    /\ \A k \in 1 .. 4 :
          result.spots[k].coordinates =
              [lat |-> result.center.lat + Deltas[k].lat, lng |-> result.center.lng + Deltas[k].lng]

KochiNames == <<"Paragon Restaurant", "Kashi Art Cafe", "Grand Pavilion", "District 7 Restro Cafe">>

IsLocation(result, k) ==
    /\ result.center = [lat |-> Recognized[k].lat, lng |-> Recognized[k].lng]
    /\ result.locationName = Recognized[k].name

\* C7, as the claim states it: a query that contains a recognized substring
\* gets that location's center and name, whatever the fallback coordinates
C7_EveryContainedLocation ==
    \A i \in DOMAIN mockRuns :
        \A k \in Hits(mockArgs.query) : IsLocation(mockRuns[i].result, k)

\* C7, amended: a query that contains recognized substrings gets the center and
\* name of the first of paris, new york, kochi that it contains, whatever the
\* fallback coordinates, and four spots at the fixed offsets; a query resolved
\* to Kochi gets the four Kochi names
C7_FirstContainedLocation ==
    \A i \in DOMAIN mockRuns :
        LET hits == Hits(mockArgs.query)
            result == mockRuns[i].result
        IN  hits # {} =>
              LET first == CHOOSE k \in hits : \A h \in hits : k <= h
              IN  /\ IsLocation(result, first)
                  /\ AtOffsets(result)
                  /\ first = 3 => \A n \in 1 .. 4 : result.spots[n].name = Val(KochiNames[n])

\* mockSpots('kochi', ...) has run with fallback coordinates away from Kochi
C7_Witness ==
    /\ mockArgs.query = sKochi
    /\ mockArgs.lat = Sydney.lat
    /\ Len(mockRuns) > 0
    /\ mockRuns[1].result.locationName = sKochiKerala

\* C8: a query that contains no recognized substring (ignoring case) gets
\* the literal query as location name, the fallback coordinates as center and
\* four spots at the fixed offsets from them
C8_UnrecognizedKeepsFallback ==
    \A i \in DOMAIN mockRuns :
        Hits(mockArgs.query) = {} =>
            /\ mockRuns[i].result.locationName = mockArgs.query
            /\ mockRuns[i].result.center = [lat |-> mockArgs.lat, lng |-> mockArgs.lng]
            /\ AtOffsets(mockRuns[i].result)

\* mockSpots has run on an unrecognized query with white space and capitals
C8_Witness ==
    /\ mockArgs.query = <<" ">> \o sTokyo
    /\ mockArgs.lat = Sydney.lat
    /\ Len(mockRuns) > 0
    /\ mockRuns[1].result.spots[4].coordinates.lng = Sydney.lng + 80

-----------------------------------------------------------------------------
(* Properties of the upstream mapping, checked under SpecMap *)

\* the resumption has run and took the upstream path
UpstreamPath == mapOut # <<>> /\ ~upstreamThrows(mapArgs.resp)

\* C11: every record of the upstream path that lacks viralPosts becomes a
\* FoodSpot whose viralPosts is the one synthesized post, never empty
C11_PostsSynthesized ==
    UpstreamPath =>
        \A k \in DOMAIN mapArgs.resp.spots :
            mapArgs.resp.spots[k].viralPosts = undefined =>
                LET posts == mapOut[1].spots[k].viralPosts
                IN  /\ Len(posts) = 1
                    /\ posts[1].handle = "@foodie_explorer"
                    /\ posts[1].caption[2] = mapArgs.resp.spots[k].name
                    /\ posts[1].imageUrl[2] = k - 1

\* the second of two records lacks viralPosts and got the post seeded 1
C11_Witness ==
    /\ UpstreamPath
    /\ mapArgs.resp.spots = <<ItemFull, ItemBare>>
    /\ mapOut[1].spots[2].viralPosts[1].imageUrl = <<"https://picsum.photos/seed/", 1, "/400/400">>

\* the payload is an object whose spots are omitted or an array of records
OmitsOnly(resp) ==
    /\ resp.kind = "object"
    /\ resp.spotsKind \in {"undefined", "array"}
    /\ \A k \in DOMAIN resp.spots : ~resp.spots[k].isNull

\* C12: an object payload that omits optional parts yields an upstream-derived
\* result, not the mock one: one FoodSpot per record in the same order, the
\* location name defaulting to the query, each center coordinate to the
\* caller's, the spot list to empty
C12_OmissionsDefault ==
    (mapOut # <<>> /\ OmitsOnly(mapArgs.resp)) =>
        LET resp == mapArgs.resp
            result == mapOut[1]
        IN  /\ Len(result.spots) = Len(resp.spots)
            /\ \A k \in DOMAIN resp.spots :
                  /\ result.spots[k].id = <<"gemini", now, k - 1>>
                  /\ result.spots[k].name = resp.spots[k].name
                  /\ result.spots[k].cuisine = resp.spots[k].cuisine
            /\ resp.spotsKind = "undefined" => result.spots = <<>>
            /\ resp.regionName = undefined => result.locationName = mapArgs.query
            /\ resp.regionLat = undefined => result.center.lat = mapArgs.lat
            /\ resp.regionLng = undefined => result.center.lng = mapArgs.lng
            /\ resp.regionName = Val(sTokyoJapan) => result.locationName = sTokyoJapan

\* an empty object came back for a padded query made from Sydney
C12_Witness ==
    /\ mapOut # <<>>
    /\ mapArgs.resp = Response("object", NoBody)
    /\ mapArgs.lat = Sydney.lat
    /\ mapOut[1] = [spots |-> <<>>, center |-> Sydney, locationName |-> sTokyoPadded]

-----------------------------------------------------------------------------
(* Properties of the weekly refresh, checked under SpecApp *)

\* the step in which the timer of refresh f runs
RefreshStep(f) == refreshes[f].pc = "wait" /\ refreshes'[f].pc = "done"

\* new is min(100, old + d) for a drift d between -3 and up
DriftedWithin(old, new, up) ==
    /\ new # NaN /\ new # undefined
    /\ new[1] <= 100
    /\ \E d \in -3 .. up : new[1] = IF old[1] + d > 100 THEN 100 ELSE old[1] + d

IsNumber(score) == score # undefined /\ score # NaN

\* C13, as the claim states it: for every spot held when the refresh was
\* invoked the new trendingScore is at most 100 and, before the clamp, within
\* 3 of the prior one in either direction
C13_WithinThree ==
    [][ \A f \in DOMAIN refreshes : RefreshStep(f) =>
          \A k \in DOMAIN refreshes[f].held :
              DriftedWithin(refreshes[f].held[k].trendingScore, spots'[k].trendingScore, 3) ]_vars

\* C13, amended: for every spot held when the refresh was invoked and whose
\* trendingScore is a number, the new trendingScore is min(100, prior + d) for
\* an integer d from -3 to 6
C13_DriftMinusThreeToSix ==
    [][ \A f \in DOMAIN refreshes : RefreshStep(f) =>
          \A k \in DOMAIN refreshes[f].held :
              IsNumber(refreshes[f].held[k].trendingScore) =>
                  DriftedWithin(refreshes[f].held[k].trendingScore, spots'[k].trendingScore, 6) ]_vars

\* the list a finished refresh wrote is still the held one
RefreshedHeld(f) ==
    /\ f \in DOMAIN refreshes
    /\ refreshes[f].pc = "done"
    /\ Len(spots) = Len(refreshes[f].held)
    /\ \A k \in DOMAIN spots : spots[k].id = refreshes[f].held[k].id
    /\ \A r \in DOMAIN runs : runs[r].ended < refreshes[f].ended

\* a refresh has raised one score by 6 and clamped another to 100
C13_Witness ==
    /\ RefreshedHeld(1)
    /\ \E k \in DOMAIN spots :
          spots[k].trendingScore[1] = refreshes[1].held[k].trendingScore[1] + 6
    /\ \E k \in DOMAIN spots :
          /\ spots[k].trendingScore[1] = 100
          /\ refreshes[1].held[k].trendingScore[1] > 94

\* stamp a is earlier than stamp b
Earlier(a, b) == a[1] < b[1] \/ (a[1] = b[1] /\ a[2] < b[2])

\* C14: the refresh of a list of N spots writes a list of N spots, in the
\* same order with the same ids, each with a lastUpdated later than before
C14_SameSpotsLaterStamps ==
    [][ \A f \in DOMAIN refreshes : RefreshStep(f) =>
          LET held == refreshes[f].held
          IN  /\ Len(spots') = Len(held)
              /\ \A k \in DOMAIN held :
                    /\ spots'[k].id = held[k].id
                    /\ Earlier(held[k].lastUpdated, spots'[k].lastUpdated) ]_vars

\* a refresh of the four mock spots has run, 2500 ms after their stamp
C14_Witness ==
    /\ RefreshedHeld(1)
    /\ Len(spots) = 4
    /\ ~apiKey
    /\ spots[4].lastUpdated = toISOString(StartTime + ScanDelay + RankDelay + ValidateDelay + RefreshDelay)

\* a spot without the two fields the refresh writes
Unrefreshed(s) == [f \in (DOMAIN s) \ {"trendingScore", "lastUpdated"} |-> s[f]]

\* C15: the refresh, from the click to its timer, changes no field of a spot
\* but trendingScore and lastUpdated, makes no call on the Discovery Service
\* and leaves the cache as it is
C15_RefreshFrame ==
    [][ /\ \A f \in DOMAIN refreshes : RefreshStep(f) =>
              /\ \A k \in DOMAIN refreshes[f].held :
                    Unrefreshed(spots'[k]) = Unrefreshed(refreshes[f].held[k])
              /\ requestCache' = requestCache
              /\ calls' = calls
              /\ events' = events
        /\ Len(refreshes') > Len(refreshes) =>
              /\ requestCache' = requestCache
              /\ calls' = calls
              /\ events' = events
              /\ spots' = spots ]_vars

\* a refresh of an upstream result has run, and the cache still holds the
\* result with the scores the upstream gave
C15_Witness ==
    /\ RefreshedHeld(1)
    /\ apiKey
    /\ Len(spots) = 2
    /\ \E key \in DOMAIN requestCache :
          /\ Len(requestCache[key].spots) = 2
          /\ requestCache[key].spots[1].id = spots[1].id
          /\ requestCache[key].spots[1].trendingScore = Val(99)
          /\ spots[1].trendingScore # Val(99)

-----------------------------------------------------------------------------
(* Properties of the discovery runs and the stage, checked under SpecApp *)

IsPrefix(a, b) == Len(a) <= Len(b) /\ a = SubSeq(b, 1, Len(a))

\* what one run does, in the order of lines 59-95
FullTrace ==
    << "set DISCOVERY", "log DISCOVERY", "set SEARCH", "log SEARCH", "fetch",
       "set RANKING", "log RANKING", "set VALIDATION", "log VALIDATION",
       "commit", "log IDLE", "set IDLE" >>

\* operation x (began and ended are places in the log) was over before y
\* began
Before(x, y) == x.ended # 0 /\ x.ended < y.began

\* no other run and no refresh was in flight while run r was
Alone(r) ==
    /\ \A o \in DOMAIN runs \ {r} : Before(runs[o], runs[r]) \/ Before(runs[r], runs[o])
    /\ \A f \in DOMAIN refreshes : Before(refreshes[f], runs[r]) \/ Before(runs[r], refreshes[f])

\* C16: a run with no other run or refresh in flight sets the stages in the
\* order DISCOVERY, SEARCH, RANKING, VALIDATION, IDLE with one log entry each,
\* calls the service once between SEARCH and RANKING and commits between
\* VALIDATION and IDLE (stated as the claim states it)
C16_LinearRun ==
    \A r \in DOMAIN runs :
        Alone(r) =>
            /\ IsPrefix(runs[r].trace, FullTrace)
            /\ runs[r].pc \notin RunWaits => runs[r].trace = FullTrace

\* the value the service call of run r resolved to
ResultOf(r) == calls[runs[r].call].value

\* C17: a second run started while a first is in flight leaves both to go on
\* to their commit, and the results are applied in the order of the commits,
\* the later commit deciding what is held (stated as the claim states it)
C17_BothCommit ==
    \A a, b \in DOMAIN runs :
        (a < b /\ ~Before(runs[a], runs[b])) =>
            /\ runs[a].pc # "thrown" /\ runs[b].pc # "thrown"
            /\ (runs[a].pc = "done" /\ runs[b].pc = "done") =>
                  LET last == IF runs[a].ended > runs[b].ended THEN a ELSE b
                  IN  ( /\ \A r \in DOMAIN runs : runs[r].ended <= runs[last].ended
                        /\ \A f \in DOMAIN refreshes : refreshes[f].ended < runs[last].ended )
                      => /\ spots = ResultOf(last).spots
                         /\ userLocation = ResultOf(last).center
                         /\ locationName = ResultOf(last).locationName

\* C18: the agent log is append-only: every step leaves the log it found as
\* a prefix of the log it leaves
C18_LogAppendOnly ==
    [][ IsPrefix(agentLogs, agentLogs') ]_vars

\* two runs and a refresh have written their entries after the position one
C18_Witness ==
    /\ Len(runs) = 2 /\ \A r \in DOMAIN runs : runs[r].pc = "done"
    /\ Len(refreshes) = 1 /\ refreshes[1].pc = "done"
    /\ agentLogs[3].message = "User position detected"
    /\ Len(agentLogs) = 15

\* no run and no refresh is in flight
Quiet == PendingTimers = {}

\* the held center and name are those of the result of run r, and the held
\* spots are its spots but for what a refresh writes
DerivedFrom(r) ==
    /\ runs[r].pc = "done"
    /\ userLocation = ResultOf(r).center
    /\ locationName = ResultOf(r).locationName
    /\ Len(spots) = Len(ResultOf(r).spots)
    /\ \A k \in DOMAIN spots :
          /\ spots[k].id = ResultOf(r).spots[k].id
          /\ Unrefreshed(spots[k]) = Unrefreshed(ResultOf(r).spots[k])

\* C19: whenever no run and no refresh is in flight, the held spots, center
\* and location name derive from one and the same result (stated as the
\* claim states it)
C19_OneResult ==
    (Mounted /\ Quiet) => \E r \in DOMAIN runs : DerivedFrom(r)

\* the runs and refreshes in flight, and those that are over
InFlight ==
    { [began |-> runs[r].began] : r \in {x \in DOMAIN runs : runs[x].pc \in RunWaits} }
    \cup { [began |-> refreshes[f].began] :
             f \in {x \in DOMAIN refreshes : refreshes[x].pc = "wait"} }

Over ==
    { [ended |-> runs[r].ended] : r \in {x \in DOMAIN runs : runs[x].pc = "done"} }
    \cup { [ended |-> refreshes[f].ended] :
             f \in {x \in DOMAIN refreshes : refreshes[x].pc = "done"} }

\* C20, as the claim states it: the stage is IDLE only when no run and no
\* refresh timer is pending
C20_IdleOnlyWhenQuiet ==
    activeAgent = "IDLE" => InFlight = {}

\* C20, amended: the stage is IDLE only when every run and refresh still
\* pending began before another run committed or another refresh completed
C20_IdleAfterACompletion ==
    activeAgent = "IDLE" =>
        \A o \in InFlight : \E c \in Over : c.ended > o.began

\* the mount run has committed while a search awaits the upstream: the
\* stage is IDLE and a run is pending
C20_Witness ==
    /\ activeAgent = "IDLE"
    /\ Len(runs) = 2
    /\ runs[1].pc = "done"
    /\ runs[2].pc = "awaitFetch"

\* C22: the selected spot is null or a spot whose id is in the held list
\* (stated as the claim states it)
C22_SelectionInList ==
    \/ selectedSpot = null
    \/ \E k \in DOMAIN spots : spots[k].id = selectedSpot[1].id

\* C23: every started run eventually commits its result and sets the stage
\* back to IDLE (stated as the claim states it)
C23_EveryRunCommits ==
    \A r \in 1 .. MaxRuns :
        (r \in DOMAIN runs) ~> (r \in DOMAIN runs /\ runs[r].pc = "done")

====
